---- MODULE Spec2Model ----
(***************************************************************************)
(* Model of snmp_location_lookup.py: the location-template expander, the   *)
(* compliance checker, the LibreNMS client, the DNS fallback and the       *)
(* reconciliation driver process_excel_file.                               *)
(*                                                                         *)
(* Python strings are sequences of one-character strings.  Python's None   *)
(* and pandas' NaN are the one-element sequences None and NaN, whose       *)
(* element is no character, so that they compare with every string.        *)
(***************************************************************************)
EXTENDS Integers, Sequences, FiniteSets, TLC

VARIABLES
    pc,                 \* position in the code
    location_format,    \* format_template / location_format
    df_columns,         \* df.columns.tolist()
    row,                \* the row: column name -> cell
    expected_location,  \* build_expected_location's result
    again,              \* result of expanding expected_location once more
    exc,                \* the exception that escaped, "none" when none did
    device_name,        \* str(row[device_col]).strip()
    domain_suffix,      \* the configured domain suffix
    full_hostname,      \* the hostname looked up
    location,           \* the location the API reports
    is_compliant,       \* is_location_compliant's result
    response,           \* what requests.get meets for the current request
    device_info,        \* get_device_info's result
    disk,               \* excel_path: "missing", "original" or "written"
    backup,             \* excel_path.bak: "none" or "original"
    exit_code,          \* -1 while running, then the process's exit status
    total_sheets,       \* len(sheet_names)
    sheet_idx,          \* sheets iterated so far
    sheets,             \* what pd.read_excel found on disk, sheet by sheet
    annotated,          \* the current sheet carries an earlier run's columns
    total_rows,         \* len(df)
    idx,                \* rows of df iterated so far, the current one included
    df_row,             \* df.loc[idx]: the current row of df, as annotated so far
    tally,              \* the rows of df before the current one, counted by
                        \* what their Status and Compliant cells hold
    counts,             \* the five per-sheet counters
    calls,              \* the lookups made for the current row, in order
    book,               \* the sheets written to the writer's workbook
    summary             \* the rows of the Summary sheet

templateVars == <<location_format, df_columns, row, expected_location, again>>
hostVars == <<device_name, domain_suffix, full_hostname>>
compliantVars == <<location, is_compliant>>
clientVars == <<response, device_info>>
fileVars == <<disk, backup, exit_code>>
sheetVars == <<total_sheets, sheet_idx, sheets, annotated, total_rows, book, summary>>
rowVars == <<idx, df_row, tally, counts, calls>>
driverVars == <<fileVars, sheetVars, rowVars>>

vars == <<pc, exc, templateVars, hostVars, compliantVars, clientVars, driverVars>>

None == <<"None">>
NaN == <<"NaN">>

\* ------------------------------------------------------------------ strings

UpperLetters == <<"A","B","C","D","E","F","G","H","I","J","K","L","M",
                  "N","O","P","Q","R","S","T","U","V","W","X","Y","Z">>
LowerLetters == <<"a","b","c","d","e","f","g","h","i","j","k","l","m",
                  "n","o","p","q","r","s","t","u","v","w","x","y","z">>

IsUpper(c) == \E i \in 1..26 : UpperLetters[i] = c

\* str.isspace / the regex class \s, on the characters a cell can hold
IsSpace(c) == c \in {" ", "\t", "\n", "\r"}

\* ord(c) for an uppercase letter
ord(c) == 64 + (CHOOSE i \in 1..26 : UpperLetters[i] = c)

RECURSIVE lstrip(_)
lstrip(s) == IF s # <<>> /\ IsSpace(Head(s)) THEN lstrip(Tail(s)) ELSE s

RECURSIVE rstrip(_)
rstrip(s) ==
    IF s # <<>> /\ IsSpace(s[Len(s)]) THEN rstrip(SubSeq(s, 1, Len(s) - 1)) ELSE s

\* str.strip()
strip(s) == rstrip(lstrip(s))

LowerChar(c) ==
    IF IsUpper(c) THEN LowerLetters[CHOOSE i \in 1..26 : UpperLetters[i] = c] ELSE c

\* str.lower()
lower(s) == IF s = <<>> THEN <<>> ELSE [i \in 1..Len(s) |-> LowerChar(s[i])]

StartsWith(s, p) == Len(s) >= Len(p) /\ SubSeq(s, 1, Len(p)) = p

\* str.replace(old, new): every non-overlapping occurrence, left to right
RECURSIVE replace(_, _, _)
replace(s, old, new) ==
    IF s = <<>> THEN <<>>
    ELSE IF StartsWith(s, old)
         THEN new \o replace(SubSeq(s, Len(old) + 1, Len(s)), old, new)
         ELSE <<Head(s)>> \o replace(Tail(s), old, new)

\* the longest prefix of uppercase letters: the group ([A-Z]+), greedy
RECURSIVE UpperRun(_)
UpperRun(s) ==
    IF s # <<>> /\ IsUpper(Head(s)) THEN <<Head(s)>> \o UpperRun(Tail(s)) ELSE <<>>

\* re.findall(r'\$([A-Z]+)', t): the letters of each placeholder, in order
RECURSIVE findall_col_refs(_)
findall_col_refs(t) ==
    IF t = <<>> THEN <<>>
    ELSE IF Head(t) = "$" /\ UpperRun(Tail(t)) # <<>>
         THEN <<UpperRun(Tail(t))>>
              \o findall_col_refs(SubSeq(t, 2 + Len(UpperRun(Tail(t))), Len(t)))
         ELSE findall_col_refs(Tail(t))

\* re.sub(r'\.\s*\.', '.', s): one left-to-right pass over non-overlapping
\* matches; a period, any whitespace, a period become one period
RECURSIVE sub_double_periods(_)
sub_double_periods(s) ==
    IF s = <<>> THEN <<>>
    ELSE IF /\ Head(s) = "."
            /\ lstrip(Tail(s)) # <<>>
            /\ Head(lstrip(Tail(s))) = "."
         THEN <<".">> \o sub_double_periods(Tail(lstrip(Tail(s))))
         ELSE <<Head(s)>> \o sub_double_periods(Tail(s))

\* the clean-up with the trailing alternative \.$ left out
sub_edge_periods_leading_only(s) ==
    IF s # <<>> /\ Head(s) = "." THEN Tail(s) ELSE s

\* re.sub(r'^\.|\.$', '', s): the period at the start and the period at the end
sub_edge_periods(s) ==
    LET a == IF s # <<>> /\ Head(s) = "." THEN Tail(s) ELSE s
    IN  IF a # <<>> /\ a[Len(a)] = "." THEN SubSeq(a, 1, Len(a) - 1) ELSE a

\* pd.isna(cell)
isna(cell) == cell = NaN \/ cell = None

\* ------------------------------------------------- build_expected_location

TypeError == <<"TypeError">>

\* the loop over col_refs; ord() of a string of two or more characters raises
RECURSIVE SubstituteRefs(_, _, _, _)
SubstituteRefs(result, col_refs, r, columns) ==
    IF col_refs = <<>> THEN result
    ELSE LET col_ref == Head(col_refs) IN
         IF Len(col_ref) # 1 THEN TypeError
         ELSE LET col_idx == ord(col_ref[1]) - ord("A") IN
              IF col_idx < 0 \/ col_idx >= Len(columns)
              THEN SubstituteRefs(replace(result, <<"$">> \o col_ref, <<>>),
                                  Tail(col_refs), r, columns)
              ELSE LET col_name == columns[col_idx + 1]
                       col_value == IF isna(r[col_name]) THEN <<>>
                                    ELSE strip(r[col_name])
                   IN  SubstituteRefs(replace(result, <<"$">> \o col_ref, col_value),
                                      Tail(col_refs), r, columns)

build_expected_location(r, columns, format_template) ==
    IF format_template = <<>> \/ format_template = None THEN None
    ELSE LET result == SubstituteRefs(format_template,
                                      findall_col_refs(format_template), r, columns)
         IN  IF result = TypeError THEN TypeError
             ELSE sub_edge_periods(sub_double_periods(result))


\* ----------------------------------------------------- is_location_compliant

\* the comparison with .lower() left out
is_location_compliant_case_sensitive(loc, expected) ==
    IF loc \in {None, <<>>} \/ expected \in {None, <<>>} THEN FALSE
    ELSE strip(loc) = strip(expected)

\* `not location or not expected_location` is true of None and of ''
is_location_compliant(loc, expected) ==
    IF loc \in {None, <<>>} \/ expected \in {None, <<>>} THEN FALSE
    ELSE lower(strip(loc)) = lower(strip(expected))

\* ------------------------------------------------------ hostname derivation

\* str.split(sep) on a one-character separator
RECURSIVE split(_, _)
split(s, sep) ==
    IF \A i \in 1..Len(s) : s[i] # sep THEN <<s>>
    ELSE LET at == CHOOSE i \in 1..Len(s) :
                       s[i] = sep /\ \A j \in 1..(i - 1) : s[j] # sep
         IN  <<SubSeq(s, 1, at - 1)>> \o split(SubSeq(s, at + 1, Len(s)), sep)

\* the derivation with the test for a period left out: the suffix always added
derive_full_hostname_always_suffix(name, suffix) == name \o suffix

\* process_excel_file, "Handle domain suffix"
derive_full_hostname(name, suffix) ==
    IF \E i \in 1..Len(name) : name[i] = "."
    THEN LET hostname_parts == split(name, ".") IN
         IF Len(hostname_parts) < 2 THEN name \o suffix ELSE name
    ELSE name \o suffix

\* ------------------------------------------------ LibreNMSClient.get_device_info

NoDevice == [none |-> TRUE]
NoResponse == [kind |-> "none"]

Raise(e) == [raise |-> e]
IsRaise(v) == DOMAIN v = {"raise"}

\* the try block: the value returned, or the exception raised in it
\* (requests.get raising, response.json() on a body that is no JSON, .get on a
\* body that is no object, [0] on a "devices" that is an object, not a list)
get_device_info_try(resp) ==
    IF resp.kind # "response" THEN Raise(resp.kind)
    ELSE IF resp.status_code = 200
         THEN IF resp.json = "invalid" THEN Raise("JSONDecodeError")
              ELSE IF resp.json # "object" THEN Raise("AttributeError")
              ELSE IF /\ resp.status = "ok"
                      /\ resp.devices_kind \in {"list", "object"}
                      /\ Len(resp.devices) > 0
                   THEN IF resp.devices_kind = "list" THEN resp.devices[1]
                        ELSE Raise("KeyError")
                   ELSE NoDevice
         ELSE NoDevice

\* the handlers without the final `except Exception`
get_device_info_no_catch_all(resp) ==
    LET r == get_device_info_try(resp) IN
    IF IsRaise(r) /\ r.raise \in {"Timeout", "ConnectionError"} THEN NoDevice ELSE r

\* the three handlers: Timeout, ConnectionError, Exception, each returning None
get_device_info(resp) ==
    LET r == get_device_info_try(resp) IN
    IF IsRaise(r)
    THEN IF r.raise = "Timeout" THEN NoDevice
         ELSE IF r.raise = "ConnectionError" THEN NoDevice
         ELSE NoDevice
    ELSE r


\* ------------------------------------------------------- perform_dns_lookup

FOUND_IN_DNS == <<"Found in DNS">>
NOT_FOUND_IN_DNS == <<"Not found in DNS">>
DNS_TIMEOUT == <<"DNS lookup timeout">>
DNS_ERROR == <<"DNS lookup error">>
DnsAddress == <<"10.0.0.1">>

\* the try block: nslookup, then socket.gethostbyname when nslookup's output
\* shows neither a refusal nor an address
perform_dns_lookup_try(dns) ==
    IF dns.nslookup \in {"TimeoutExpired", "OSError"} THEN Raise(dns.nslookup)
    ELSE IF dns.nslookup = "NXDOMAIN" THEN [ip |-> None, status |-> NOT_FOUND_IN_DNS]
    ELSE IF dns.nslookup = "address" THEN [ip |-> DnsAddress, status |-> FOUND_IN_DNS]
    ELSE IF dns.socket = "address" THEN [ip |-> DnsAddress, status |-> FOUND_IN_DNS]
    ELSE IF dns.socket = "gaierror" THEN [ip |-> None, status |-> NOT_FOUND_IN_DNS]
    ELSE Raise(dns.socket)

\* the handlers: subprocess.TimeoutExpired, then Exception
perform_dns_lookup(dns) ==
    LET r == perform_dns_lookup_try(dns) IN
    IF IsRaise(r)
    THEN IF r.raise = "TimeoutExpired" THEN [ip |-> None, status |-> DNS_TIMEOUT]
         ELSE [ip |-> None, status |-> DNS_ERROR]
    ELSE r

\* ------------------------------------------------------------------ inputs

RECURSIVE StringsUpTo(_, _)
StringsUpTo(chars, n) ==
    IF n = 0 THEN {<<>>}
    ELSE LET shorter == StringsUpTo(chars, n - 1)
         IN  shorter \cup {Append(s, c) : s \in {t \in shorter : Len(t) = n - 1},
                                          c \in chars}

MaxTemplateLen == 4
MaxCleanLen == 5

\* templates with placeholders, against one or two columns
ExpandTemplates == StringsUpTo({"$", "A", "B", ".", "x"}, MaxTemplateLen)
ExpandCells == {NaN, <<"$", "B">>, <<" ", "x", " ">>, <<"y">>}
ExpandRows ==
    {[columns |-> <<"c0">>, row |-> [n \in {"c0"} |-> a]] : a \in ExpandCells}
    \cup {[columns |-> <<"c0", "c1">>,
           row |-> [n \in {"c0", "c1"} |-> IF n = "c0" THEN ab[1] ELSE ab[2]]] :
          ab \in ExpandCells \X ExpandCells}

\* templates of periods, whitespace and text, against one column
CleanTemplates == StringsUpTo({"$", "A", ".", " ", "x"}, MaxCleanLen)
CleanRows ==
    {[columns |-> <<"c0">>, row |-> [n \in {"c0"} |-> a]] : a \in {NaN, <<"y">>, <<".">>}}

\* ------------------------------------------- build_expected_location, called

TemplateIdle ==
    /\ location_format = <<>>
    /\ df_columns = <<>>
    /\ row = <<>>
    /\ expected_location = None
    /\ again = None

HostIdle ==
    /\ device_name = <<>>
    /\ domain_suffix = <<>>
    /\ full_hostname = <<>>

CompliantIdle ==
    /\ location = None
    /\ is_compliant = FALSE

ClientIdle ==
    /\ response = NoResponse
    /\ device_info = NoDevice

ZeroTally == [total |-> 0, found |-> 0, not_found |-> 0, yes |-> 0, no |-> 0]

\* no row: what df_row holds outside the loop over the rows
NoRow == [none |-> TRUE]

ZeroCounts ==
    [processed |-> 0, found |-> 0, not_found |-> 0, compliant |-> 0,
     non_compliant |-> 0]

DriverIdle ==
    /\ disk = "original"
    /\ backup = "none"
    /\ exit_code = -1
    /\ total_sheets = 0
    /\ sheet_idx = 0
    /\ sheets = <<>>
    /\ annotated = FALSE
    /\ total_rows = 0
    /\ idx = 0
    /\ df_row = NoRow
    /\ tally = ZeroTally
    /\ counts = ZeroCounts
    /\ calls = <<>>
    /\ book = <<>>
    /\ summary = <<>>

InitTemplate ==
    /\ pc = "call"
    /\ HostIdle /\ CompliantIdle /\ ClientIdle /\ DriverIdle
    /\ \E in \in (ExpandTemplates \X ExpandRows) \cup (CleanTemplates \X CleanRows) :
          /\ location_format = in[1]
          /\ df_columns = in[2].columns
          /\ row = in[2].row
    /\ expected_location = None
    /\ again = None
    /\ exc = "none"

\* expected_location = build_expected_location(row, df.columns.tolist(), location_format)
CallBuild ==
    /\ pc = "call"
    /\ LET r == build_expected_location(row, df_columns, location_format) IN
          IF r = TypeError
          THEN /\ exc' = "TypeError"
               /\ pc' = "raised"
               /\ UNCHANGED expected_location
          ELSE /\ expected_location' = r
               /\ pc' = "ret"
               /\ UNCHANGED exc
    /\ UNCHANGED <<location_format, df_columns, row, again>>
    /\ UNCHANGED <<hostVars, compliantVars, clientVars, driverVars>>

\* the result expanded once more, as a template of its own
CallBuildAgain ==
    /\ pc = "ret"
    /\ LET r == build_expected_location(row, df_columns, expected_location) IN
          IF r = TypeError
          THEN /\ exc' = "TypeError"
               /\ pc' = "raised"
               /\ UNCHANGED again
          ELSE /\ again' = r
               /\ pc' = "ret2"
               /\ UNCHANGED exc
    /\ UNCHANGED <<location_format, df_columns, row, expected_location>>
    /\ UNCHANGED <<hostVars, compliantVars, clientVars, driverVars>>

NextTemplate == CallBuild \/ CallBuildAgain

SpecTemplate == InitTemplate /\ [][NextTemplate]_vars

\* ---------------------------------------------------- template claims C2..C5

\* some period of s is followed, at once or after whitespace only, by another
HasPeriodPair(s) ==
    \E i \in 1..Len(s) : \E j \in (i + 1)..Len(s) :
        /\ s[i] = "."
        /\ s[j] = "."
        /\ \A k \in (i + 1)..(j - 1) : IsSpace(s[k])

\* s holds a dollar sign followed by an uppercase letter
HasPlaceholder(s) ==
    \E i \in 1..(Len(s) - 1) : s[i] = "$" /\ IsUpper(s[i + 1])

\* s without its first character when that is a period, and without its last
\* character when that is a period
TrimEdgePeriods(s) ==
    LET from == IF Len(s) >= 1 /\ s[1] = "." THEN 2 ELSE 1
        to == IF Len(s) >= from /\ s[Len(s)] = "." THEN Len(s) - 1 ELSE Len(s)
    IN  SubSeq(s, from, to)

\* every placeholder of t replaced at once by its column's trimmed value, by
\* the empty string when the cell is NaN or the column is not there
RECURSIVE ExpandAtOnce(_, _, _)
ExpandAtOnce(t, r, columns) ==
    IF t = <<>> THEN <<>>
    ELSE IF Head(t) = "$" /\ UpperRun(Tail(t)) # <<>>
         THEN LET ref == UpperRun(Tail(t))
                  i == ord(ref[1]) - 64
                  v == IF Len(ref) # 1 \/ i > Len(columns) THEN <<>>
                       ELSE IF r[columns[i]] \in {NaN, None} THEN <<>>
                       ELSE strip(r[columns[i]])
              IN  v \o ExpandAtOnce(SubSeq(t, 2 + Len(ref), Len(t)), r, columns)
         ELSE <<Head(t)>> \o ExpandAtOnce(Tail(t), r, columns)

\* the cells of the row hold no dollar sign of their own
NoDollarInCells == \A n \in DOMAIN row : \A i \in 1..Len(row[n]) : row[n][i] # "$"

\* C2: build_expected_location never raises, whatever placeholders the
\* template holds (multi-letter ones included), and its result holds no
\* placeholder text (other than text that is itself the value of a cell).
C2_NeverRaisesNoResidue ==
    /\ pc # "raised"
    /\ exc = "none"
    /\ (pc = "ret" /\ NoDollarInCells) => ~HasPlaceholder(expected_location)

\* C3: the result is the template with each single-letter placeholder in
\* range replaced by exactly its column's trimmed value (the empty string for
\* NaN), no value being changed by the substitution of another placeholder;
\* the period clean-up then applies.
C3_ExactValuesSubstituted ==
    (pc = "ret" /\ location_format # <<>>) =>
        expected_location =
            sub_edge_periods(sub_double_periods(
                ExpandAtOnce(location_format, row, df_columns)))

\* C4: the result holds no two periods that are adjacent or separated only
\* by whitespace.
C4_NoPeriodPairLeft ==
    pc = "ret" => ~HasPeriodPair(expected_location)

MaxLocationLen == 3

Locations == {None} \cup StringsUpTo({"A", "a", "b", " "}, MaxLocationLen)

InitCompliant ==
    /\ pc = "call"
    /\ exc = "none"
    /\ location \in Locations
    /\ \E e \in Locations : /\ expected_location = e
                            /\ location_format = <<>>
                            /\ df_columns = <<>>
                            /\ row = <<>>
                            /\ again = None
    /\ is_compliant = FALSE
    /\ HostIdle /\ ClientIdle /\ DriverIdle

\* is_compliant = is_location_compliant(location, expected_location)
CallIsLocationCompliant ==
    /\ pc = "call"
    /\ is_compliant' = is_location_compliant(location, expected_location)
    /\ pc' = "ret"
    /\ UNCHANGED <<exc, templateVars, hostVars, location, clientVars, driverVars>>

NextCompliant == CallIsLocationCompliant

SpecCompliant == InitCompliant /\ [][NextCompliant]_vars

\* s between its first and its last character that is not whitespace
Core(s) ==
    LET inked == {i \in 1..Len(s) : ~IsSpace(s[i])} IN
    IF inked = {} THEN <<>>
    ELSE SubSeq(s, CHOOSE i \in inked : \A j \in inked : i <= j,
                   CHOOSE i \in inked : \A j \in inked : i >= j)

\* a and b are the same letter in either case, or the same character
SameCharIgnoringCase(a, b) ==
    a = b \/ \E k \in 1..26 : {a, b} = {UpperLetters[k], LowerLetters[k]}

SameIgnoringCase(s, t) ==
    Len(s) = Len(t) /\ \A i \in 1..Len(s) : SameCharIgnoringCase(s[i], t[i])

\* C6: false when either argument is empty or missing, otherwise true exactly
\* when the two are equal after trimming surrounding whitespace and
\* lower-casing; the arguments are left as they were.
C6_CompliantIffEqualTrimmedLowered ==
    pc = "ret" =>
        is_compliant =
            (/\ location \notin {None, <<>>}
             /\ expected_location \notin {None, <<>>}
             /\ SameIgnoringCase(Core(location), Core(expected_location)))

C6_Witness ==
    /\ pc = "ret"
    /\ is_compliant
    /\ location = <<"A", "b">>
    /\ expected_location = <<"a", "b", " ">>

\* ------------------------------------------------- hostname derivation, done

MaxNameLen == 4

\* trimmed, non-empty device names
DeviceNames ==
    {n \in StringsUpTo({"s", "1", "."}, MaxNameLen) : n # <<>> /\ Head(n) # "."}
DomainSuffixes == {<<".", "d">>, <<".", "e", ".", "c">>}

InitHostname ==
    /\ pc = "call"
    /\ exc = "none"
    /\ device_name \in DeviceNames
    /\ domain_suffix \in DomainSuffixes
    /\ full_hostname = <<>>
    /\ TemplateIdle /\ CompliantIdle /\ ClientIdle /\ DriverIdle

\* lines 284-297 of process_excel_file
DeriveHostname ==
    /\ pc = "call"
    /\ full_hostname' = derive_full_hostname(device_name, domain_suffix)
    /\ pc' = "ret"
    /\ UNCHANGED <<exc, templateVars, device_name, domain_suffix, compliantVars,
                   clientVars, driverVars>>

NextHostname == DeriveHostname

SpecHostname == InitHostname /\ [][NextHostname]_vars

\* the dot-separated parts of a name: its maximal runs of characters other
\* than the period ("sw01." has one, "sw01.example.com" three)
DotParts(name) ==
    {i \in 1..Len(name) : name[i] # "." /\ (i = 1 \/ name[i - 1] = ".")}

\* C1: the hostname is the name unchanged when the name contains a period
\* and splits into two or more dot-separated parts, and name+suffix
\* otherwise; "sw01." (one part) gets the suffix.
C1_HostnameDerivation ==
    pc = "ret" =>
        full_hostname =
            IF (\E i \in 1..Len(device_name) : device_name[i] = ".")
               /\ Cardinality(DotParts(device_name)) >= 2
            THEN device_name
            ELSE device_name \o domain_suffix

\* ------------------------------------------------------ get_device_info, called

DeviceKeys == {"hostname", "ip", "sysDescr", "hardware", "os", "version",
               "last_polled", "location"}

\* the device objects the API answers with
Device1 ==
    [k \in DeviceKeys |-> IF k = "location" THEN <<"X">> ELSE <<k, "1">>]
Device2 ==
    [k \in DeviceKeys |-> IF k = "location" THEN <<"y">> ELSE <<k, "2">>]
Device3 ==
    [k \in DeviceKeys \ {"location", "version"} |-> <<k, "3">>]
Devices == {Device1, Device2, Device3}

DeviceLists ==
    {<<>>} \cup {<<d>> : d \in Devices} \cup {<<d, e>> : d \in Devices, e \in Devices}

HttpResponses ==
    [kind : {"response"}, status_code : {200, 401, 404, 500},
     json : {"invalid", "list", "object"}, status : {"absent", "ok", "error"},
     devices_kind : {"absent", "null", "list", "object"}, devices : DeviceLists]

\* a reply with a body that parses to an object, a body that does not, or no
\* reply at all
Responses ==
    {r \in HttpResponses :
        /\ r.json # "object" => (r.status = "absent" /\ r.devices_kind = "absent")
        /\ r.devices_kind \in {"absent", "null"} => r.devices = <<>>
        /\ r.devices_kind = "object" => Len(r.devices) = 1}
    \cup {[kind |-> k] : k \in {"Timeout", "ConnectionError", "SSLError"}}

InitClient ==
    /\ pc = "call"
    /\ exc = "none"
    /\ response \in Responses
    /\ device_info = NoDevice
    /\ TemplateIdle /\ CompliantIdle /\ DriverIdle
    /\ device_name = <<>>
    /\ domain_suffix = <<>>
    /\ full_hostname \in {<<"s", ".", "d">>}

\* device_info = client.get_device_info(full_hostname)
CallGetDeviceInfo ==
    /\ pc = "call"
    /\ LET r == get_device_info(response) IN
          IF IsRaise(r)
          THEN /\ exc' = r.raise
               /\ pc' = "raised"
               /\ UNCHANGED device_info
          ELSE /\ device_info' = r
               /\ pc' = "ret"
               /\ UNCHANGED exc
    /\ UNCHANGED <<templateVars, hostVars, compliantVars, response, driverVars>>

NextClient == CallGetDeviceInfo

SpecClient == InitClient /\ [][NextClient]_vars

\* the reply is HTTP 200 with body status "ok" and a non-empty device list
IsSuccess(resp) ==
    /\ resp.kind = "response"
    /\ resp.status_code = 200
    /\ resp.json = "object"
    /\ resp.status = "ok"
    /\ resp.devices_kind = "list"
    /\ resp.devices # <<>>

new_columns == <<"hostname", "ip", "sysDescr", "hardware", "os", "version",
                 "last_polled", "location", "Expected_Location", "Compliant",
                 "Status", "DNS_IP", "DNS_Status">>
NewColumnSet == {new_columns[i] : i \in 1..Len(new_columns)}

FOUND == <<"Found">>
NOT_FOUND == <<"Not found in LibreNMS">>
YES == <<"Yes">>
NO == <<"No">>

\* str(cell): NaN prints as 'nan', None as 'None'
str(cell) ==
    IF cell = NaN THEN <<"n", "a", "n">>
    ELSE IF cell = None THEN <<"N", "o", "n", "e">>
    ELSE cell

\* device_info.get(key, '')
DeviceGet(d, key) == IF key \in DOMAIN d THEN d[key] ELSE <<>>

\* the columns `df[col] = None` adds to a sheet that has none of them
FreshAnnotation == [n \in NewColumnSet |-> None]

\* the same columns as an earlier run left them on a found, compliant row,
\* read back from the file (an empty cell reads as NaN)
PriorAnnotation ==
    [n \in NewColumnSet |->
        IF n = "Status" THEN FOUND
        ELSE IF n = "Compliant" THEN YES
        ELSE IF n \in {"DNS_IP", "DNS_Status"} THEN NaN
        ELSE <<n, "0">>]

DriverRow(name_cell, b_cell, ann) ==
    [n \in {"c0", "c1"} \cup NewColumnSet |->
        IF n = "c0" THEN name_cell ELSE IF n = "c1" THEN b_cell ELSE ann[n]]

\* the number of rows of a sheet, and the sheets a workbook may hold
MaxRows == 2
SheetNames == <<"Sheet1", "Sheet2">>

DriverFormats == {<<>>, <<"$", "B">>, <<"$", "A", "A">>}
DriverNameCells == {NaN, <<" ">>, <<"s">>}
DriverCells == {NaN, <<"x">>}
DriverResponses ==
    {[kind |-> "Timeout"],
     [kind |-> "response", status_code |-> 404, json |-> "object",
      status |-> "error", devices_kind |-> "absent", devices |-> <<>>],
     [kind |-> "response", status_code |-> 200, json |-> "invalid",
      status |-> "absent", devices_kind |-> "absent", devices |-> <<>>],
     [kind |-> "response", status_code |-> 200, json |-> "object",
      status |-> "ok", devices_kind |-> "list", devices |-> <<Device1>>],
     [kind |-> "response", status_code |-> 200, json |-> "object",
      status |-> "ok", devices_kind |-> "list", devices |-> <<Device3, Device2>>]}
DnsOutcomes ==
    [nslookup : {"TimeoutExpired", "OSError", "NXDOMAIN", "address", "unclear"},
     socket : {"address", "gaierror", "UnicodeError"}]

Init ==
    /\ pc = "start"
    /\ exc = "none"
    /\ location_format \in DriverFormats
    /\ df_columns = <<"c0", "c1">> \o new_columns
    /\ row = <<>>
    /\ expected_location = <<>>
    /\ again = None
    /\ device_name = <<>>
    /\ domain_suffix = <<".", "d">>
    /\ full_hostname = <<>>
    /\ CompliantIdle /\ ClientIdle
    /\ disk \in {"missing", "original"}
    /\ backup = "none"
    /\ exit_code = -1
    /\ total_sheets = 0
    /\ sheet_idx = 0
    /\ sheets = <<>>
    /\ annotated = FALSE
    /\ total_rows = 0
    /\ idx = 0
    /\ df_row = NoRow
    /\ tally = ZeroTally
    /\ counts = ZeroCounts
    /\ calls = <<>>
    /\ book = <<>>
    /\ summary = <<>>

\* shutil.copy2 never made: the backup file is left as it was
copy2_skipped(src, dst) == dst

\* line 204, shutil.copy2(src, dst): the content of dst once the copy is done
copy2(src, dst) == src

\* lines 195-205: the existence check and the backup copy; a copy that fails
\* (the directory cannot be written, the disk is full) raises outside every
\* handler and ends the run, the backup absent or incomplete
Start ==
    /\ pc = "start"
    /\ IF disk = "missing"
       THEN /\ exit_code' = 1
            /\ pc' = "exit"
            /\ UNCHANGED <<exc, backup>>
       ELSE \E outcome \in {"copied", "OSError"} :
               IF outcome = "copied"
               THEN /\ backup' = copy2(disk, backup)
                    /\ pc' = "open"
                    /\ UNCHANGED <<exc, exit_code>>
               ELSE /\ backup' \in {backup, "partial"}
                    /\ exc' = outcome
                    /\ exit_code' = 1
                    /\ pc' = "exit"
    /\ UNCHANGED <<templateVars, hostVars, compliantVars, clientVars, disk,
                   sheetVars, rowVars>>

\* lines 211-228: pd.ExcelFile, the sheet names, the ExcelWriter opened on the
\* same file; a workbook that cannot be read or opened ends the run
OpenWorkbook ==
    /\ pc = "open"
    /\ \E outcome \in {"ok", "BadZipFile", "PermissionError"} :
       \E n \in 0..Len(SheetNames) :
          IF outcome = "ok" /\ n > 0
          THEN /\ total_sheets' = n
               /\ pc' = "sheet"
               /\ UNCHANGED <<exc, exit_code>>
          ELSE /\ exc' = IF outcome = "ok" THEN "SystemExit" ELSE outcome
               /\ exit_code' = 1
               /\ pc' = "exit"
               /\ UNCHANGED total_sheets
    /\ UNCHANGED <<templateVars, hostVars, compliantVars, clientVars, disk, backup,
                   sheet_idx, sheets, annotated, total_rows, book, summary, rowVars>>

\* the tally with one more row counted
Tallied(t, r) ==
    IF r = NoRow THEN t
    ELSE [total |-> t.total + 1,
          found |-> t.found + (IF r["Status"] = FOUND THEN 1 ELSE 0),
          not_found |-> t.not_found + (IF r["Status"] = NOT_FOUND THEN 1 ELSE 0),
          yes |-> t.yes + (IF r["Compliant"] = YES THEN 1 ELSE 0),
          no |-> t.no + (IF r["Compliant"] = NO THEN 1 ELSE 0)]

\* lines 230-272: the sheet read from the file; an empty one is skipped, the
\* others get the new columns and fresh counters
ReadSheet ==
    /\ pc = "sheet"
    /\ sheet_idx < total_sheets
    /\ \E n \in 0..MaxRows : \E ann \in BOOLEAN :
          /\ n = 0 => ~ann
          /\ sheets' = Append(sheets, [rows |-> n, annotated |-> ann])
          /\ IF n = 0
             THEN /\ sheet_idx' = sheet_idx + 1
                  /\ UNCHANGED <<pc, annotated, total_rows, rowVars>>
             ELSE /\ annotated' = ann
                  /\ total_rows' = n
                  /\ idx' = 0
                  /\ df_row' = NoRow
                  /\ tally' = ZeroTally
                  /\ counts' = ZeroCounts
                  /\ calls' = <<>>
                  /\ pc' = "row"
                  /\ UNCHANGED sheet_idx
    /\ UNCHANGED <<exc, templateVars, hostVars, compliantVars, clientVars, fileVars,
                   total_sheets, book, summary>>

\* lines 274-303: the next row; the skip of a row without device name, the
\* processed counter, the hostname and the expected location, whose
\* exception ends the run through the handler of line 531 (the writer,
\* left by the exception, saves what it holds)
RowBegin ==
    /\ pc = "row"
    /\ idx < total_rows
    /\ \E name_cell \in DriverNameCells : \E b_cell \in DriverCells :
       LET r == DriverRow(name_cell, b_cell,
                          IF annotated THEN PriorAnnotation ELSE FreshAnnotation)
           name == strip(str(r["c0"]))
           built == IF location_format # <<>>
                    THEN build_expected_location(r, df_columns, location_format)
                    ELSE <<>>
       IN  /\ row' = r
           /\ device_name' = name
           /\ idx' = idx + 1
           /\ tally' = Tallied(tally, df_row)
           /\ calls' = <<>>
           /\ IF name = <<>> \/ isna(name)
              THEN /\ df_row' = r
                   /\ UNCHANGED <<pc, exc, exit_code, disk, counts, full_hostname,
                                  expected_location>>
              ELSE /\ counts' = [counts EXCEPT !.processed = @ + 1]
                   /\ full_hostname' = derive_full_hostname(name, domain_suffix)
                   /\ IF built = TypeError
                      THEN /\ expected_location' = <<>>
                           /\ df_row' = r
                           /\ exc' = "TypeError"
                           /\ exit_code' = 1
                           /\ disk' = "written"
                           /\ pc' = "exit"
                      ELSE /\ expected_location' = built
                           /\ df_row' =
                                  IF location_format # <<>>
                                  THEN [r EXCEPT !["Expected_Location"] =
                                           IF built \in {<<>>, None} THEN <<>> ELSE built]
                                  ELSE r
                           /\ pc' = "query"
                           /\ UNCHANGED <<exc, exit_code, disk>>
    /\ UNCHANGED <<location_format, df_columns, again, domain_suffix, compliantVars,
                   clientVars, backup, sheetVars>>

\* lines 305-307: the one API lookup of the row
QueryApi ==
    /\ pc = "query"
    /\ \E resp \in DriverResponses :
       LET r == get_device_info(resp) IN
          IF IsRaise(r)
          THEN /\ exc' = r.raise
               /\ exit_code' = 1
               /\ disk' = "written"
               /\ pc' = "exit"
               /\ UNCHANGED device_info
          ELSE /\ device_info' = r
               /\ pc' = "update"
               /\ UNCHANGED <<exc, exit_code, disk>>
    /\ calls' = Append(calls, "api")
    /\ UNCHANGED <<templateVars, hostVars, compliantVars, response, backup, sheetVars,
                   idx, df_row, tally, counts>>

\* the verdict that keeps the previous row's is_compliant when no expected
\* location was computed (`is_compliant = False` left out)
compliant_verdict_stale(loc, expected, previous) ==
    IF expected \notin {<<>>, None} THEN is_location_compliant(loc, expected)
    ELSE previous

\* lines 325-327: is_compliant, False unless an expected location was computed
compliant_verdict(loc, expected, previous) ==
    IF expected \notin {<<>>, None} THEN is_location_compliant(loc, expected)
    ELSE FALSE

\* lines 310-340: the row of a device that was found
UpdateFound ==
    /\ pc = "update"
    /\ device_info # NoDevice
    /\ LET loc == DeviceGet(device_info, "location")
           checked == expected_location \notin {<<>>, None}
           compliant == compliant_verdict(loc, expected_location, is_compliant)
       IN  /\ location' = loc
           /\ is_compliant' = compliant
           /\ counts' = [counts EXCEPT
                  !.found = @ + 1,
                  !.compliant = IF checked /\ compliant THEN @ + 1 ELSE @,
                  !.non_compliant = IF checked /\ ~compliant THEN @ + 1 ELSE @]
           /\ df_row' = [df_row EXCEPT
                  !["hostname"] = DeviceGet(device_info, "hostname"),
                  !["ip"] = DeviceGet(device_info, "ip"),
                  !["sysDescr"] = DeviceGet(device_info, "sysDescr"),
                  !["hardware"] = DeviceGet(device_info, "hardware"),
                  !["os"] = DeviceGet(device_info, "os"),
                  !["version"] = DeviceGet(device_info, "version"),
                  !["last_polled"] = DeviceGet(device_info, "last_polled"),
                  !["location"] = loc,
                  !["Compliant"] = IF compliant THEN YES ELSE NO,
                  !["Status"] = FOUND]
    /\ pc' = "row"
    /\ UNCHANGED <<exc, templateVars, hostVars, clientVars, fileVars, sheetVars, idx,
                   tally, calls>>

\* lines 341-351: the row of a device that was not found, and the DNS fallback
UpdateNotFound ==
    /\ pc = "update"
    /\ device_info = NoDevice
    /\ \E dns \in DnsOutcomes :
       LET r == perform_dns_lookup(dns) IN
          df_row' = [df_row EXCEPT
                  !["Status"] = NOT_FOUND,
                  !["DNS_IP"] = r.ip,
                  !["DNS_Status"] = r.status]
    /\ counts' = [counts EXCEPT !.not_found = @ + 1]
    /\ calls' = Append(calls, "dns")
    /\ pc' = "row"
    /\ UNCHANGED <<exc, templateVars, hostVars, compliantVars, clientVars, fileVars,
                   sheetVars, idx, tally>>

\* lines 353-355: df.to_excel(writer, sheet_name): the sheet, as annotated,
\* replaces its original in the writer's workbook; the locals of the loop
\* over the rows are dead from here on
SaveSheet ==
    /\ pc = "row"
    /\ idx = total_rows
    /\ book' = Append(book, [sheet |-> sheet_idx + 1] @@ Tallied(tally, df_row))
    /\ sheet_idx' = sheet_idx + 1
    /\ pc' = "sheet"
    /\ df_row' = NoRow
    /\ tally' = ZeroTally
    /\ calls' = <<>>
    /\ row' = <<>>
    /\ expected_location' = <<>>
    /\ device_name' = <<>>
    /\ full_hostname' = <<>>
    /\ location' = None
    /\ is_compliant' = FALSE
    /\ device_info' = NoDevice
    /\ UNCHANGED <<exc, location_format, df_columns, again, domain_suffix, response,
                   fileVars, total_sheets, sheets, annotated, total_rows, summary,
                   idx, counts>>

\* a sheet's summary row, counted in the sheet as pd.read_excel finds it in
\* the file, which the writer has not saved yet
SummaryRow(i) ==
    [sheet |-> i,
     total |-> sheets[i].rows,
     found |-> IF sheets[i].annotated THEN sheets[i].rows ELSE 0,
     not_found |-> 0,
     yes |-> IF sheets[i].annotated THEN sheets[i].rows ELSE 0,
     no |-> 0]

RECURSIVE SummaryRows(_)
SummaryRows(i) ==
    IF i > Len(sheets) THEN <<>>
    ELSE (IF sheets[i].rows = 0 THEN <<>> ELSE <<SummaryRow(i)>>) \o SummaryRows(i + 1)

RECURSIVE SumOf(_, _)
SumOf(rows, col) == IF rows = <<>> THEN 0 ELSE Head(rows)[col] + SumOf(Tail(rows), col)

\* lines 419-489: the Summary sheet, one row per sheet and the TOTAL row
Summarize ==
    /\ pc = "sheet"
    /\ sheet_idx = total_sheets
    /\ LET rows == SummaryRows(1) IN
          summary' = Append(rows,
              [sheet |-> 0,
               total |-> SumOf(rows, "total"),
               found |-> SumOf(rows, "found"),
               not_found |-> SumOf(rows, "not_found"),
               yes |-> SumOf(rows, "yes"),
               no |-> SumOf(rows, "no")])
    /\ pc' = "close"
    /\ UNCHANGED <<exc, templateVars, hostVars, compliantVars, clientVars, fileVars,
                   total_sheets, sheet_idx, sheets, annotated, total_rows, book,
                   rowVars>>

\* the end of the `with` block: the writer saves its workbook over the file
CloseWriter ==
    /\ pc = "close"
    /\ \E outcome \in {"saved", "PermissionError"} :
          IF outcome = "saved"
          THEN /\ disk' = "written"
               /\ exit_code' = 0
               /\ pc' = "done"
               /\ UNCHANGED exc
          ELSE /\ exc' = outcome
               /\ exit_code' = 1
               /\ pc' = "exit"
               /\ UNCHANGED disk
    /\ UNCHANGED <<templateVars, hostVars, compliantVars, clientVars, backup,
                   sheetVars, rowVars>>

Next ==
    \/ Start
    \/ OpenWorkbook
    \/ ReadSheet
    \/ RowBegin
    \/ QueryApi
    \/ UpdateFound
    \/ UpdateNotFound
    \/ SaveSheet
    \/ Summarize
    \/ CloseWriter

Spec == Init /\ [][Next]_vars

\* ------------------------------------------------------- driver claims C8..C10

\* a device-name cell that is empty or missing: NaN, absent, blank or
\* whitespace only
MissingName(cell) == cell \in {NaN, None} \/ \A i \in 1..Len(cell) : IsSpace(cell[i])

\* the Status cell of the current row before this run touched it
PriorStatus == IF annotated THEN FOUND ELSE None

DnsLabels == {FOUND_IN_DNS, NOT_FOUND_IN_DNS, DNS_TIMEOUT, DNS_ERROR}

\* C8: every processed (non-skipped) row gets exactly one API lookup; the DNS
\* fallback runs exactly once, after the lookup, if and only if the lookup
\* returned not-found, and then the row ends with Status "Not found in
\* LibreNMS" and the resolver's address and label recorded.  Stated of each
\* row with a device name once its handling is over (the loop is back at its
\* head, or the run has ended on that row).
C8_OneLookupOneFallback ==
    (/\ df_row # NoRow
     /\ ~MissingName(df_row["c0"])
     /\ pc \in {"row", "exit"}) =>
        /\ calls \in {<<"api">>, <<"api", "dns">>}
        /\ (calls = <<"api", "dns">>) <=> (device_info = NoDevice)
        /\ calls = <<"api", "dns">> =>
              /\ df_row["Status"] = NOT_FOUND
              /\ df_row["DNS_Status"] \in DnsLabels
              /\ df_row["DNS_IP"] =
                    IF df_row["DNS_Status"] = FOUND_IN_DNS THEN DnsAddress ELSE None

\* the same, of the rows whose handling reaches the end of the loop body
C8_HoldsOfCompletedRows ==
    /\ calls \in {<<>>, <<"api">>, <<"api", "dns">>}
    /\ (df_row # NoRow /\ ~MissingName(df_row["c0"]) /\ pc = "row") =>
          /\ calls \in {<<"api">>, <<"api", "dns">>}
          /\ (calls = <<"api", "dns">>) <=> (device_info = NoDevice)
          /\ calls = <<"api", "dns">> =>
                /\ df_row["Status"] = NOT_FOUND
                /\ df_row["DNS_Status"] \in DnsLabels

\* C9: a row whose lookup returned a device has Status "Found", the device's
\* eight fields copied (the empty string for a field the device lacks), and
\* Compliant "Yes" exactly when a non-empty expected location was computed
\* for the row and is_location_compliant(device location, expected) holds,
\* "No" otherwise.
C9_FoundRowAnnotated ==
    (pc = "row" /\ calls = <<"api">> /\ device_info # NoDevice) =>
        LET expected == IF location_format = <<>> THEN <<>>
                        ELSE build_expected_location(row, df_columns, location_format)
            device_location == IF "location" \in DOMAIN device_info
                               THEN device_info["location"] ELSE <<>>
        IN  /\ df_row["Status"] = FOUND
            /\ \A k \in DeviceKeys :
                  df_row[k] = IF k \in DOMAIN device_info THEN device_info[k] ELSE <<>>
            /\ df_row["Compliant"] =
                  IF /\ expected \notin {<<>>, None}
                     /\ is_location_compliant(device_location, expected)
                  THEN YES ELSE NO

C9_Witness ==
    /\ pc = "row"
    /\ calls = <<"api">>
    /\ device_info = Device1
    /\ df_row["Status"] = FOUND
    /\ df_row["Compliant"] = YES
    /\ df_row["location"] = <<"X">>
    /\ df_row["Expected_Location"] = <<"x">>
    /\ counts.compliant = 1

\* C10: a row whose device-name cell is empty or missing is skipped: no API
\* lookup and no DNS fallback is made or pending for it, its Status is not
\* written, and no counter counts it (every row counted as processed is
\* counted as found or as not found).
C10_RowWithoutNameSkipped ==
    (df_row # NoRow /\ MissingName(df_row["c0"])) =>
        /\ pc \notin {"query", "update", "exit"}
        /\ calls = <<>>
        /\ df_row["Status"] = PriorStatus
        /\ counts.processed = counts.found + counts.not_found

\* ------------------------------------------------------ driver claims C11..C14

\* the four counted columns of a Summary row or of a written sheet
Counted == {"found", "not_found", "yes", "no"}

\* C11: when a run completes, each per-sheet row of the Summary sheet equals
\* the counts of the sheet as this run wrote it (rows with Status "Found" /
\* "Not found in LibreNMS", rows with Compliant "Yes" / "No"), and the TOTAL
\* row is the column-wise sum of the per-sheet rows.
C11_SummaryMatchesWrittenSheets ==
    pc = "done" =>
        /\ Len(summary) = Len(book) + 1
        /\ \A i \in 1..Len(book) :
              /\ summary[i].sheet = book[i].sheet
              /\ \A c \in Counted : summary[i][c] = book[i][c]
        /\ \A c \in Counted :
              summary[Len(summary)][c] = SumOf(SubSeq(summary, 1, Len(summary) - 1), c)

\* the half of C11 about the TOTAL row, and the per-sheet rows being those of
\* the non-empty sheets in order
C11_TotalRowIsColumnSum ==
    pc \in {"close", "done"} =>
        /\ Len(summary) = Len(book) + 1
        /\ \A i \in 1..Len(book) : summary[i].sheet = book[i].sheet
        /\ \A c \in Counted \cup {"total"} :
              summary[Len(summary)][c] = SumOf(SubSeq(summary, 1, Len(summary) - 1), c)

\* the driver under the scheduling of a sequential program: every step that
\* can be taken is taken (the request is bounded by its timeout of 30 s, the
\* DNS fallback by its timeout of 5 s)
FairSpec == Init /\ [][Next]_vars /\ WF_vars(Next)

\* the run ended by one of the run-level conditions: the file missing, the
\* backup or the workbook not writable (permission denied), the workbook
\* unreadable, no sheets
RunLevelExit ==
    /\ pc = "exit"
    /\ \/ disk = "missing"
       \/ exc \in {"OSError", "PermissionError", "BadZipFile", "SystemExit"}

\* the current row has been handled by this run
RowHandled == pc = "row" /\ df_row # NoRow /\ ~(device_name = <<>> \/ isna(device_name))

\* C12: a failure on one row never aborts the batch: whatever the API and
\* DNS outcomes, every non-skipped row ends with Status "Found" or "Not found
\* in LibreNMS", and the run eventually has written the Summary sheet, unless
\* one of the run-level conditions ended it.
C12_RowFailureNeverAbortsBatch ==
    /\ [](RowHandled => df_row["Status"] \in {FOUND, NOT_FOUND})
    /\ <>(\/ pc \in {"close", "done"} /\ Len(summary) = Len(book) + 1
          \/ RunLevelExit)

\* every run ends: with the workbook saved, or with exit code 1
C12_EveryRunEnds == <>(pc = "done" \/ (pc = "exit" /\ exit_code = 1))

\* what C12 says, of the API and DNS outcomes alone: the only exit that is
\* not run-level is the TypeError of build_expected_location
C12_OnlyTemplateErrorAborts ==
    /\ RowHandled => df_row["Status"] \in {FOUND, NOT_FOUND}
    /\ pc = "exit" => RunLevelExit \/ exc = "TypeError"

\* C13: on an existing input file the backup is complete before the file is
\* first modified, and from the copy on (an abort through a fatal error
\* included) it holds the unmodified original; when the input file does not
\* exist the run exits with a non-zero code, no backup made, no file written.
C13_BackupBeforeModification ==
    /\ disk = "written" => backup = "original"
    /\ (disk # "missing" /\ pc # "start" /\ exc # "OSError") => backup = "original"
    /\ disk = "missing" =>
          /\ backup = "none"
          /\ pc \in {"start", "exit"}
          /\ pc = "exit" => exit_code = 1
          /\ book = <<>> /\ summary = <<>>

\* a run aborted on a row: the file already overwritten, the backup intact
C13_Witness ==
    /\ pc = "exit"
    /\ exc = "TypeError"
    /\ exit_code = 1
    /\ disk = "written"
    /\ backup = "original"

\* a row with a device name has been handled by this run
NamedRowHandled == RowHandled /\ ~MissingName(df_row["c0"])

\* an empty cell: never written, read back empty, or the empty string
EmptyCell == {None, NaN, <<>>}

\* C14: the annotations of a processed row are those of this run only, also
\* in a sheet that carries the columns of an earlier run: a row that ends
\* "Not found in LibreNMS" has Compliant neither "Yes" nor "No" and empty
\* device fields, a row that ends "Found" has empty DNS_IP and DNS_Status;
\* hence no written sheet has more rows with Compliant "Yes" or "No" than
\* rows with Status "Found".
C14_AnnotationsOfThisRunOnly ==
    /\ (NamedRowHandled /\ df_row["Status"] = NOT_FOUND) =>
          /\ df_row["Compliant"] \notin {YES, NO}
          /\ \A k \in DeviceKeys : df_row[k] \in EmptyCell
    /\ (NamedRowHandled /\ df_row["Status"] = FOUND) =>
          /\ df_row["DNS_IP"] \in EmptyCell
          /\ df_row["DNS_Status"] \in EmptyCell
    /\ \A i \in 1..Len(book) : book[i].yes + book[i].no <= book[i].found

\* the same, of the sheets that carry no annotation column yet
C14_HoldsOfFreshSheets ==
    /\ (NamedRowHandled /\ ~annotated /\ df_row["Status"] = NOT_FOUND) =>
          /\ df_row["Compliant"] \notin {YES, NO}
          /\ \A k \in DeviceKeys : df_row[k] \in EmptyCell
    /\ (NamedRowHandled /\ df_row["Status"] = FOUND) =>
          /\ df_row["DNS_IP"] \in EmptyCell
          /\ df_row["DNS_Status"] \in EmptyCell
    /\ \A i \in 1..Len(book) :
          ~sheets[book[i].sheet].annotated => book[i].yes + book[i].no <= book[i].found

====
